---- MODULE Spec2Model ----
(***************************************************************************)
(* A model of react-reactive-hooks' useReactive: the write buffer          *)
(* (tempValuesWithStringPath / tempValuesWithSymbolPath), the views        *)
(* (proxyObject / proxyArray), the emulated array methods and the commit   *)
(* (batchUpdate / produceNewState) run by every render pass of the hook.   *)
(* useReactiveUndo, the hook built on it, adds the past and future stacks  *)
(* with undo and redo.                                                     *)
(*                                                                         *)
(* Objects live in a heap so that reference identity, structural sharing   *)
(* and in-place mutation are observable.                                   *)
(***************************************************************************)
EXTENDS Integers, Sequences, FiniteSets, TLC

VARIABLES
    heap,       \* the JS heap: a sequence of objects, an object's id is its index
    state,      \* state.current: the current snapshot (a reference)
    strTemp,    \* tempValuesWithStringPath: Map<string, unknown>, in insertion order
    symTemp,    \* tempValuesWithSymbolPath: Map<Array<string|symbol>, unknown>
    isDirty,    \* isDirty.current
    v,          \* the host's useState flag as of the last render pass
    vNext,      \* the flag value the host will hold at the next render pass
    rerender,   \* whether the host has a render pass scheduled
    rootView,   \* the view returned by the last render pass
    kept,       \* a view the caller kept from an earlier read (destructured / closed over)
    last,       \* what the most recent operation did (observation only)
    wlog,       \* the writes made since the last checkpoint (observation only)
    nOps,       \* operations performed so far
    nRenders,   \* render passes performed so far
    initCalls,  \* calls of the initialState function made so far
    hist,       \* useReactiveUndo: past.current, future.current, justUndo, justRedo
    story       \* useReactiveUndo: what each render pass committed (observation only)

vars == <<heap, state, strTemp, symTemp, isDirty, v, vNext, rerender,
          rootView, kept, last, wlog, nOps, nRenders, initCalls, hist, story>>

progVars == <<heap, state, strTemp, symTemp, isDirty, v, vNext, rerender>>

-----------------------------------------------------------------------------
(* Bounds of the exploration *)

MaxOps == 2
MaxRenders == 2

-----------------------------------------------------------------------------
(* JavaScript values.  A reference carries the heap id of its object. *)

Undef == [t |-> "undef", n |-> 0]
Null == [t |-> "null", n |-> 0]
Num(i) == [t |-> "num", n |-> i]
False == [t |-> "bool", n |-> 0]
EmptyStr == [t |-> "str", n |-> 0]
Ref(id) == [t |-> "ref", n |-> id]
Fn(i) == [t |-> "fn", n |-> i]

IsRef(x) == x.t = "ref"

(* Property keys.  A string key is held as the list of its '.'-free      *)
(* segments ("a.b" is <<"a","b">>, "" is <<"">>), which is what           *)
(* String.prototype.split('.') returns for it; a symbol has an identity.  *)
K(a) == [sym |-> FALSE, s |-> <<a>>, id |-> 0]
Sym(i) == [sym |-> TRUE, s |-> <<"k">>, id |-> i]
(* The string key 'a.b' *)
DotKey == [sym |-> FALSE, s |-> <<"a", "b">>, id |-> 0]

Digits == <<"0", "1", "2", "3", "4", "5", "6", "7">>
IdxKey(i) == K(Digits[i + 1])
IsIdxKey(k) == ~k.sym /\ Len(k.s) = 1 /\ \E i \in 1..Len(Digits) : Digits[i] = k.s[1]
IdxOf(k) == (CHOOSE i \in 1..Len(Digits) : Digits[i] = k.s[1]) - 1
LengthKey == K("length")

Methods == <<"push", "pop", "shift", "unshift", "splice", "sort", "reverse">>
IsMethodKey(k) == ~k.sym /\ Len(k.s) = 1 /\ \E i \in 1..Len(Methods) : Methods[i] = k.s[1]
MethodOf(k) == CHOOSE i \in 1..Len(Methods) : Methods[i] = k.s[1]

NoFields == [k \in {} |-> Undef]
Obj(f) == [kind |-> "obj", f |-> f, e |-> <<>>, frozen |-> FALSE]
Arr(e) == [kind |-> "arr", f |-> NoFields, e |-> e, frozen |-> FALSE]

(* target[key] on a plain object or an array (own properties, then the   *)
(* prototype's mutating methods for an array).                            *)
PropGet(o, k) ==
    IF o.kind = "obj"
    THEN IF k \in DOMAIN o.f THEN o.f[k] ELSE Undef
    ELSE IF IsIdxKey(k)
         THEN IF IdxOf(k) < Len(o.e) THEN o.e[IdxOf(k) + 1] ELSE Undef
         ELSE IF k = LengthKey THEN Num(Len(o.e))
         ELSE IF IsMethodKey(k) THEN Fn(MethodOf(k))
         ELSE Undef

PropHas(o, k) ==
    IF o.kind = "obj" THEN k \in DOMAIN o.f
    ELSE (IsIdxKey(k) /\ IdxOf(k) < Len(o.e)) \/ k = LengthKey

(* An assignment that builds the updated object from the assigned key alone *)
PropSetAlone(o, k, x) ==
    IF o.kind = "obj" THEN [o EXCEPT !.f = [j \in {k} |-> x]] ELSE [o EXCEPT !.e = <<x>>]

(* o[k] = x on an unfrozen plain object or array: an index at or past the *)
(* end extends the array (holes read as undefined), length truncates or   *)
(* extends it.                                                            *)
PropSet(o, k, x) ==
    IF o.kind = "obj"
    THEN [o EXCEPT !.f = [j \in DOMAIN o.f \cup {k} |-> IF j = k THEN x ELSE o.f[j]]]
    ELSE IF IsIdxKey(k)
         THEN [o EXCEPT !.e = [i \in 1..(IF IdxOf(k) < Len(o.e) THEN Len(o.e) ELSE IdxOf(k) + 1) |->
                                 IF i = IdxOf(k) + 1 THEN x
                                 ELSE IF i <= Len(o.e) THEN o.e[i] ELSE Undef]]
         ELSE IF k = LengthKey /\ x.t = "num" /\ x.n >= 0
         THEN [o EXCEPT !.e = [i \in 1..x.n |-> IF i <= Len(o.e) THEN o.e[i] ELSE Undef]]
         ELSE o

-----------------------------------------------------------------------------
(* Paths and the composite key of the string-keyed buffer *)

HasSymbol(path) == \E i \in 1..Len(path) : path[i].sym

RECURSIVE JoinSegs(_)
JoinSegs(path) == IF path = <<>> THEN <<>> ELSE Head(path).s \o JoinSegs(Tail(path))

(* path.join('.'): the joined string, held as its '.'-free segments *)
Join(path) == IF path = <<>> THEN <<"">> ELSE JoinSegs(path)

(* str.split('.') *)
Split(str) == [i \in 1..Len(str) |-> K(str[i])]

(* A JS Map as the sequence of its entries in insertion order *)
MapHas(m, k) == \E i \in 1..Len(m) : m[i].k = k
MapGet(m, k) ==
    IF MapHas(m, k) THEN m[CHOOSE i \in 1..Len(m) : m[i].k = k].v ELSE Undef
MapSet(m, k, x) ==
    IF MapHas(m, k)
    THEN [i \in 1..Len(m) |-> IF m[i].k = k THEN [k |-> k, v |-> x] ELSE m[i]]
    ELSE Append(m, [k |-> k, v |-> x])

(* cachedPath.every((k, i) => k === path[i]) *)
EveryEq(cachedPath, path) ==
    \A i \in 1..Len(cachedPath) : i <= Len(path) /\ cachedPath[i] = path[i]

(* A lookup that compares symbols by their description *)
SymLookupHitsByName(sm, path) ==
    {i \in 1..Len(sm) : Len(sm[i].k) = Len(path)
                          /\ \A n \in 1..Len(path) : sm[i].k[n].s = path[n].s}

(* getCachedValue *)
SymLookupHits(sm, path) ==
    {i \in 1..Len(sm) : Len(sm[i].k) = Len(path) /\ EveryEq(sm[i].k, path)}

(* A lookup that never finds a pending write *)
getCachedValueMiss(st, sm, path) == Undef

getCachedValue(st, sm, path) ==
    IF HasSymbol(path)
    THEN IF SymLookupHits(sm, path) = {} THEN Undef
         ELSE sm[CHOOSE i \in SymLookupHits(sm, path) :
                   \A j \in SymLookupHits(sm, path) : i <= j].v
    ELSE MapGet(st, Join(path))

(* a ?? b *)
Coalesce(a, b) == IF a = Undef \/ a = Null THEN b ELSE a

(* The buffer and the flags scheduleUpdate touches, as one record *)
Buf == [st |-> strTemp, sm |-> symTemp, dirty |-> isDirty, vNext |-> vNext, rerender |-> rerender]

(* forceUpdate(x): the host schedules a render pass unless x is the flag  *)
(* it already holds and nothing is queued.                                *)
forceUpdate(b, x) == [b EXCEPT !.vNext = x, !.rerender = b.rerender \/ x # v]

(* A search that takes any buffered path the written path starts with *)
SymOverwriteHitsPrefix(sm, path) ==
    {i \in 1..Len(sm) : Len(sm[i].k) <= Len(path) /\ SubSeq(path, 1, Len(sm[i].k)) = sm[i].k}

SymOverwriteHits(sm, path) ==
    {i \in 1..Len(sm) : Len(sm[i].k) >= Len(path) /\ EveryEq(sm[i].k, path)}

(* A scheduleUpdate that asks the host for a render pass on every path *)
scheduleUpdateForcing(b, path, value, cv) ==
    forceUpdate(IF HasSymbol(path)
                THEN [b EXCEPT !.dirty = TRUE, !.sm = MapSet(b.sm, path, value)]
                ELSE [b EXCEPT !.dirty = TRUE, !.st = MapSet(b.st, Join(path), value)],
                ~cv)

(* scheduleUpdate(path, value) of the render pass whose flag was cv *)
scheduleUpdate(b, path, value, cv) ==
    IF HasSymbol(path)
    THEN IF SymOverwriteHits(b.sm, path) # {}
         THEN [b EXCEPT !.dirty = TRUE,
                        !.sm = MapSet(b.sm,
                                      b.sm[CHOOSE i \in SymOverwriteHits(b.sm, path) :
                                             \A j \in SymOverwriteHits(b.sm, path) : i <= j].k,
                                      value)]
         ELSE [b EXCEPT !.dirty = TRUE, !.sm = Append(b.sm, [k |-> path, v |-> value])]
    ELSE forceUpdate([b EXCEPT !.dirty = TRUE, !.st = MapSet(b.st, Join(path), value)], ~cv)

-----------------------------------------------------------------------------
(* Views: the Proxy objects proxyObject and proxyArray return *)

(* Object.isFrozen(obj) ? { ...obj } : obj *)
MkTarget(h, id) ==
    IF h[id].frozen
    THEN [copied |-> TRUE, id |-> id, o |-> [h[id] EXCEPT !.frozen = FALSE]]
    ELSE [copied |-> FALSE, id |-> id, o |-> Obj(NoFields)]

TargetObj(h, tgt) == IF tgt.copied THEN tgt.o ELSE h[tgt.id]

proxyObject(h, id, path, cv) ==
    [kind |-> "obj", path |-> path, tgt |-> MkTarget(h, id), arr |-> id, cv |-> cv]

proxyArray(h, id, path, cv) ==
    [kind |-> "arr", path |-> path, tgt |-> MkTarget(h, id), arr |-> id, cv |-> cv]

NoView == [kind |-> "none", path |-> <<>>, tgt |-> [copied |-> FALSE, id |-> 0, o |-> Obj(NoFields)],
           arr |-> 0, cv |-> FALSE]

(* The get trap of both proxies.  The result is a nested view, an emulated *)
(* method (array views only) or a plain value.                             *)
TrapProp(h, st, sm, view, key) ==
    Coalesce(getCachedValue(st, sm, Append(view.path, key)),
             PropGet(TargetObj(h, view.tgt), key))

ViewGet(h, st, sm, view, key) ==
    LET prop == TrapProp(h, st, sm, view, key) IN
    IF IsRef(prop)
    THEN IF h[prop.n].kind = "arr"
         THEN [t |-> "view", val |-> prop, view |-> proxyArray(h, prop.n, Append(view.path, key), view.cv)]
         ELSE [t |-> "view", val |-> prop, view |-> proxyObject(h, prop.n, Append(view.path, key), view.cv)]
    ELSE IF view.kind = "arr" /\ prop.t = "fn"
         THEN [t |-> "method", val |-> prop, view |-> view]
         ELSE [t |-> "val", val |-> prop, view |-> NoView]

(* Reading a whole path through a view, one get trap per key.  A key read *)
(* off a non-object ends the walk: the result is then "stuck".            *)
RECURSIVE ReadPath(_, _, _, _, _)
ReadPath(h, st, sm, view, path) ==
    IF path = <<>> THEN [t |-> "view", val |-> Ref(view.tgt.id), view |-> view]
    ELSE LET r == ViewGet(h, st, sm, view, Head(path)) IN
         IF Len(path) = 1 THEN r
         ELSE IF r.t = "view" THEN ReadPath(h, st, sm, r.view, Tail(path))
         ELSE [t |-> "stuck", val |-> Undef, view |-> NoView]

-----------------------------------------------------------------------------
(* The commit engine: immer's produce over the recipe of produceNewState *)

Children(o) ==
    IF o.kind = "obj" THEN {o.f[k].n : k \in {j \in DOMAIN o.f : IsRef(o.f[j])}}
    ELSE {o.e[i].n : i \in {j \in 1..Len(o.e) : IsRef(o.e[j])}}

RECURSIVE ReachFrom(_, _)
ReachFrom(h, ids) ==
    LET more == ids \cup UNION {Children(h[i]) : i \in ids} IN
    IF more = ids THEN ids ELSE ReachFrom(h, more)

Reachable(h, x) == IF IsRef(x) THEN ReachFrom(h, {x.n}) ELSE {}

(* immer freezes the tree it returns, deeply *)
FreezeFrom(h, x) ==
    [i \in 1..Len(h) |-> IF i \in Reachable(h, x) THEN [h[i] EXCEPT !.frozen = TRUE] ELSE h[i]]

(* own: the copies this produce call has made, each with the base object it copies *)
IsOwn(own, id) == \E r \in own : r.c = id
BaseOf(own, id) == IF IsOwn(own, id) THEN (CHOOSE r \in own : r.c = id).b ELSE id

(* A step that cannot be made is skipped, and the recipe goes on *)
Skipped(h, own, node) == [h |-> h, own |-> own, node |-> node, ok |-> TRUE]

Thrown(h, own, node) == [h |-> h, own |-> own, node |-> node, ok |-> FALSE]
Done(h, own, node) == [h |-> h, own |-> own, node |-> node, ok |-> TRUE]

(* An assignment that writes into the base object itself *)
AssignInPlace(h, own, id, isDraft, key, x) ==
    Done([h EXCEPT ![id] = PropSet(h[id], key, x)], own, Ref(id))

(* current[key] = x on the node `id`: a draft is copied on its first real  *)
(* change and updated in its copy afterwards; an object that was assigned  *)
(* into the draft earlier is not a draft and is written in place (and      *)
(* throws in strict mode when frozen).                                     *)
AssignIn(h, own, id, isDraft, key, x) ==
    IF isDraft /\ ~IsOwn(own, id)
    THEN IF x = PropGet(h[id], key) /\ (x # Undef \/ PropHas(h[id], key))
         THEN Done(h, own, Ref(id))
         ELSE Done(Append(h, [PropSet(h[id], key, x) EXCEPT !.frozen = FALSE]),
                   own \cup {[c |-> Len(h) + 1, b |-> id]},
                   Ref(Len(h) + 1))
    ELSE IF ~isDraft /\ h[id].frozen
         THEN Thrown(h, own, Ref(id))
         ELSE Done([h EXCEPT ![id] = PropSet(h[id], key, x)], own, Ref(id))

(* One [path, value] of the recipe, from the node `node` down.  Reading a  *)
(* key off a draft gives a draft of the base's child; anything that is not *)
(* an object cannot be descended into or assigned to: a TypeError.         *)
RECURSIVE SetIn(_, _, _, _, _, _)
SetIn(h, own, node, isDraft, path, x) ==
    IF ~IsRef(node) THEN Thrown(h, own, node)
    ELSE IF Len(path) = 1 THEN AssignIn(h, own, node.n, isDraft, Head(path), x)
    ELSE LET id == node.n
             key == Head(path)
             child == PropGet(h[id], key)
             childIsDraft == /\ isDraft
                             /\ IsRef(child)
                             /\ \/ IsOwn(own, child.n)
                                \/ child = PropGet(h[BaseOf(own, id)], key)
             r == SetIn(h, own, child, childIsDraft, Tail(path), x)
         IN IF ~r.ok THEN Thrown(r.h, r.own, node)
            ELSE IF r.node = child THEN Done(r.h, r.own, node)
            ELSE AssignIn(r.h, r.own, id, isDraft, key, r.node)

RECURSIVE Recipe(_, _, _, _)
Recipe(h, own, root, pathAndValues) ==
    IF pathAndValues = <<>> THEN Done(h, own, root)
    ELSE LET r == SetIn(h, own, root, TRUE, Head(pathAndValues).k, Head(pathAndValues).v) IN
         IF ~r.ok THEN Thrown(r.h, r.own, root)
         ELSE Recipe(r.h, r.own, r.node, Tail(pathAndValues))

(* produceNewState(state, pathAndValues): the new snapshot, or a throw *)
produceNewState(h, base, pathAndValues) ==
    LET r == Recipe(h, {}, base, pathAndValues) IN
    IF r.ok THEN [h |-> FreezeFrom(r.h, r.node), newState |-> r.node, ok |-> TRUE]
    ELSE [h |-> r.h, newState |-> base, ok |-> FALSE]

(* A drain that forgets the symbol-keyed map *)
PathAndValuesStringsOnly(st, sm) ==
    [i \in 1..Len(st) |-> [k |-> Split(st[i].k), v |-> st[i].v]]

(* The [path, value] list batchUpdate drains from the two maps *)
PathAndValues(st, sm) ==
    sm \o [i \in 1..Len(st) |-> [k |-> Split(st[i].k), v |-> st[i].v]]

-----------------------------------------------------------------------------
(* The native array methods, on the element sequence of an array.  Each   *)
(* gives the mutated elements and the returned value; a returned array is *)
(* given by its elements (self = TRUE when it is the mutated array).       *)

RetVal(x) == [t |-> "val", val |-> x, e |-> <<>>, self |-> FALSE]
RetArr(e, self) == [t |-> "arr", val |-> Undef, e |-> e, self |-> self]

Min(a, b) == IF a < b THEN a ELSE b
Max(a, b) == IF a > b THEN a ELSE b

(* One call: the method, its items, and for splice the start and the     *)
(* optional deleteCount (argc counts the arguments actually passed).      *)
Call(m, items, start, argc, dc, cmp) ==
    [m |-> m, items |-> items, start |-> start, argc |-> argc, dc |-> dc, cmp |-> cmp]

(* Array.prototype.splice(start, deleteCount, ...items) with argc arguments *)
NativeSplice(e, start, argc, dc, items) ==
    LET len == Len(e)
        from == IF start < 0 THEN Max(len + start, 0) ELSE Min(start, len)
        del == IF argc = 0 THEN 0
               ELSE IF argc = 1 THEN len - from
               ELSE Min(Max(dc, 0), len - from)
    IN [e |-> SubSeq(e, 1, from) \o items \o SubSeq(e, from + del + 1, len),
        ret |-> RetArr(SubSeq(e, from + 1, from + del), FALSE)]

(* The order Array.prototype.sort uses: undefined last; otherwise the     *)
(* default order (single-digit numbers: ascending) or the comparator      *)
(* (a, b) => b - a.                                                        *)
Before(a, b, cmp) ==
    IF a = Undef THEN FALSE
    ELSE IF b = Undef THEN TRUE
    ELSE IF cmp = "desc" THEN a.n > b.n ELSE a.n < b.n

RECURSIVE Insert(_, _, _)
Insert(sorted, x, cmp) ==
    IF sorted = <<>> THEN <<x>>
    ELSE IF Before(x, Head(sorted), cmp) THEN <<x>> \o sorted
    ELSE <<Head(sorted)>> \o Insert(Tail(sorted), x, cmp)

RECURSIVE SortElems(_, _)
SortElems(e, cmp) ==
    IF e = <<>> THEN <<>> ELSE Insert(SortElems(SubSeq(e, 1, Len(e) - 1), cmp), e[Len(e)], cmp)

Reverse(e) == [i \in 1..Len(e) |-> e[Len(e) + 1 - i]]

Native(e, c) ==
    CASE c.m = "push" -> [e |-> e \o c.items, ret |-> RetVal(Num(Len(e \o c.items)))]
      [] c.m = "pop" -> IF e = <<>> THEN [e |-> e, ret |-> RetVal(Undef)]
                        ELSE [e |-> SubSeq(e, 1, Len(e) - 1), ret |-> RetVal(e[Len(e)])]
      [] c.m = "shift" -> IF e = <<>> THEN [e |-> e, ret |-> RetVal(Undef)]
                          ELSE [e |-> Tail(e), ret |-> RetVal(Head(e))]
      [] c.m = "unshift" -> [e |-> c.items \o e, ret |-> RetVal(Num(Len(c.items \o e)))]
      [] c.m = "splice" -> NativeSplice(e, c.start, c.argc, c.dc, c.items)
      [] c.m = "sort" -> [e |-> SortElems(e, c.cmp), ret |-> RetArr(SortElems(e, c.cmp), TRUE)]
      [] c.m = "reverse" -> [e |-> Reverse(e), ret |-> RetArr(Reverse(e), TRUE)]

(* The closures proxyArray's get trap returns for the mutating methods:   *)
(* the array scheduled at the view's path, and the value returned.  The   *)
(* emulated splice always passes (start, deleteCount, ...items) on: a      *)
(* deleteCount that was not given arrives as undefined, which is 0.        *)
Emulated(array, c) ==
    CASE c.m = "push" -> [e |-> array \o c.items,
                          ret |-> RetVal(Num(Len(array) + Len(c.items)))]
      [] c.m = "pop" -> Native(array, c)
      [] c.m = "shift" -> Native(array, c)
      [] c.m = "unshift" -> [e |-> c.items \o array,
                             ret |-> RetVal(Num(Len(c.items) + Len(array)))]
      [] c.m = "splice" -> NativeSplice(array, c.start, 2 + Len(c.items),
                                        IF c.argc >= 2 THEN c.dc ELSE 0, c.items)
      [] c.m = "sort" -> Native(array, c)
      [] c.m = "reverse" -> Native(array, c)

-----------------------------------------------------------------------------
(* The initial snapshot: { count: 1, a: { b: 1, c: { [k1]: { b: 1 } },     *)
(* [k1]: 1, [k2]: 1 }, todos: [1, 2, 3] }, as plain (unfrozen) objects.     *)

RootId == 1
InitHeap ==
    << Obj([k \in {K("count"), K("a"), K("todos")} |->
              IF k = K("count") THEN Num(1) ELSE IF k = K("a") THEN Ref(2) ELSE Ref(4)]),
       Obj([k \in {K("b"), K("c"), Sym(1), Sym(2)} |-> IF k = K("c") THEN Ref(3) ELSE Num(1)]),
       Obj([k \in {Sym(1)} |-> Ref(5)]),
       Arr(<<Num(1), Num(2), Num(3)>>),
       Obj([k \in {K("b")} |-> Num(1)]) >>

(* The refs of useReactiveUndo; `on` tells whether the instance is one *)
NoHist == [on |-> FALSE, past |-> <<>>, future |-> <<>>, justUndo |-> FALSE, justRedo |-> FALSE]

NoCall == Call("none", <<>>, 0, 0, 0, "default")

(* Observation: one record per operation since the last checkpoint ...    *)
Entry(op, path, value, view, key, fresh) ==
    [op |-> op, k |-> path, v |-> value, view |-> view, key |-> key, old |-> Undef,
     call |-> NoCall, ret |-> RetVal(Undef), array |-> <<>>,
     fresh |-> fresh, clean |-> strTemp = <<>> /\ symTemp = <<>>]

(* ... and what the last step did *)
Pre == [heap |-> heap, state |-> state, st |-> strTemp, sm |-> symTemp, dirty |-> isDirty,
        v |-> v, vNext |-> vNext, rerender |-> rerender]

NoLast ==
    [op |-> "init", pre |-> [heap |-> <<>>, state |-> Undef, st |-> <<>>, sm |-> <<>>, dirty |-> FALSE,
                             v |-> FALSE, vNext |-> FALSE, rerender |-> FALSE],
     committed |-> FALSE, ok |-> TRUE, cbCalls |-> 0, cbOld |-> Undef, cbNew |-> Undef,
     log |-> <<>>, entries |-> <<>>, hist |-> NoHist,
     read |-> [path |-> <<>>, t |-> "none", val |-> Undef]]

(* useRef(typeof initialState === 'function' ? initialState() : initialState) *)
(* with initialState given as a function: the argument of useRef is       *)
(* evaluated by every pass through the hook's body.                       *)
InitialStateCalls(n) == n + 1

Init ==
    /\ heap = InitHeap
    /\ state = Ref(RootId)
    /\ strTemp = <<>>
    /\ symTemp = <<>>
    /\ isDirty = FALSE
    /\ v = FALSE
    /\ vNext = FALSE
    /\ rerender = FALSE
    /\ rootView = proxyObject(InitHeap, RootId, <<>>, FALSE)
    /\ kept = NoView
    /\ last = NoLast
    /\ wlog = <<>>
    /\ nOps = 0
    /\ nRenders = 0
    /\ initCalls = InitialStateCalls(0)
    /\ hist = NoHist
    /\ story = <<>>

-----------------------------------------------------------------------------
(* What the caller does between render passes *)

(* The inputs of a run are drawn per scenario: "buf" exercises the buffer *)
(* with every kind of value, "commit" writes paths that are ancestors,    *)
(* descendants and siblings of one another, "arr" calls the array         *)
(* methods, "sym" writes paths that hold symbol keys, "fail" writes       *)
(* below a field it replaces by a number or by an object without the key, *)
(* "read" reads through views of every depth between the writes.          *)

(* The "fail" scenario needs a kept view, the two writes that make the    *)
(* commit throw and one write more; the "undo" scenario needs two changes *)
(* and two undo steps, each with its render pass.                         *)
OpsBound(mode) ==
    IF mode = "fail" THEN MaxOps + 1 ELSE IF mode = "undo" THEN MaxOps + 2 ELSE MaxOps

(* The places the caller reaches from the root view of the last render *)
NavPaths(mode) ==
    CASE mode = "buf" -> {<<>>, <<K("a")>>}
      [] mode = "commit" -> {<<>>, <<K("a")>>, <<K("todos")>>}
      [] mode = "arr" -> {<<K("todos")>>}
      [] mode = "sym" -> {<<>>, <<K("a")>>, <<K("a"), K("c")>>, <<K("a"), K("c"), Sym(1)>>}
      [] mode = "fail" -> {<<>>, <<K("a")>>, <<K("a"), K("c")>>}
      [] mode = "undo" -> {<<K("value")>>}
      [] mode = "read" -> {<<>>, <<K("a")>>, <<K("a"), K("c")>>, <<K("a"), K("c"), Sym(1)>>,
                           <<K("todos")>>}

FreshViews(mode) ==
    {ReadPath(heap, strTemp, symTemp, rootView, p).view :
        p \in {q \in NavPaths(mode) : ReadPath(heap, strTemp, symTemp, rootView, q).t = "view"}}

LiveViews(mode) == FreshViews(mode) \cup (IF kept.kind = "none" THEN {} ELSE {kept})

(* What the caller assigns: a key, and a value or a fresh literal { b: 7 } *)
Put(key, val) == [key |-> key, val |-> val, lit |-> FALSE]
PutLit(key) == [key |-> key, val |-> Undef, lit |-> TRUE]

WriteChoices(mode, view) ==
    CASE mode = "buf" ->
           IF view.path = <<>>
           THEN {Put(K("count"), x) : x \in {Undef, Null, Num(0), False, EmptyStr, Num(2)}}
                \cup {Put(K("a"), Num(5)), Put(DotKey, Num(3))}
           ELSE {Put(K("b"), Num(2)), Put(Sym(1), Num(2)), Put(Sym(2), Num(3))}
      [] mode = "commit" ->
           IF view.kind = "arr"
           THEN {Put(IdxKey(0), Num(9)), Put(IdxKey(4), Num(9)), Put(LengthKey, Num(1))}
           ELSE IF view.path = <<>>
           THEN {Put(K("a"), Num(5)), PutLit(K("a")), Put(K("count"), Num(2))}
           ELSE {Put(K("b"), Num(2)), Put(K("b"), Num(1)), Put(Sym(1), Num(2))}
      [] mode = "arr" ->
           IF view.kind = "arr"
           THEN {Put(IdxKey(0), Num(9))}
           ELSE {Put(K("count"), Num(2))}
      [] mode = "sym" ->
           IF view.path = <<>> THEN {Put(K("count"), Num(2))}
           ELSE IF view.path = <<K("a")>> THEN {Put(Sym(1), Num(2)), Put(Sym(2), Num(3))}
           ELSE IF view.path = <<K("a"), K("c")>>
           THEN {Put(Sym(1), Num(5)), PutLit(Sym(1)), Put(Sym(2), Num(3))}
           ELSE {Put(K("b"), Num(2)), Put(K("b"), Num(3))}
      [] mode = "fail" ->
           IF view.path = <<>> THEN {Put(K("a"), Num(5)), PutLit(K("a")), Put(K("count"), Num(2))}
           ELSE {Put(K("b"), Num(2))}
      [] mode = "read" ->
           IF view.kind = "arr" THEN {Put(IdxKey(0), Num(9))}
           ELSE IF view.path = <<>> THEN {PutLit(K("a"))}
           ELSE IF view.path = <<K("a")>> THEN {Put(Sym(1), Num(2))}
           ELSE IF view.path = <<K("a"), K("c")>> THEN {PutLit(Sym(1))}
           ELSE {Put(K("b"), Num(2))}

Literal == Obj([k \in {K("b")} |-> Num(7)])

Commit(b) ==
    /\ strTemp' = b.st
    /\ symTemp' = b.sm
    /\ isDirty' = b.dirty
    /\ vNext' = b.vNext
    /\ rerender' = b.rerender

(* A set trap that also assigns to the object the view stands for *)
SetTrapHeapThrough(h, view, key, value) ==
    [h EXCEPT ![view.tgt.id] = PropSet(h[view.tgt.id], key, value)]

(* set(_, key, value): the trap ignores its target, the heap is as it was *)
SetTrapHeap(h, view, key, value) == h

(* The set trap of both proxies: view[key] = value *)
Write(mode, view, ch) ==
    LET value == IF ch.lit THEN Ref(Len(heap) + 1) ELSE ch.val
        path == Append(view.path, ch.key)
        h == IF ch.lit THEN Append(heap, Literal) ELSE heap
    IN /\ nOps < OpsBound(mode)
       /\ heap' = SetTrapHeap(h, view, ch.key, value)
       /\ Commit(scheduleUpdate(Buf, path, value, view.cv))
       /\ last' = [NoLast EXCEPT !.op = "write", !.pre = Pre]
       /\ wlog' = Append(wlog, Entry("write", path, value, view, ch.key, view \in FreshViews(mode)))
       /\ nOps' = nOps + 1
       /\ UNCHANGED <<state, v, rootView, kept, nRenders, initCalls, hist, story>>

WriteAct(mode) ==
    \E view \in LiveViews(mode) : \E ch \in WriteChoices(mode, view) : Write(mode, view, ch)

(* view[key]++ : the get trap, then the set trap with the read value + 1 *)
Increment(mode, view, key) ==
    LET r == ViewGet(heap, strTemp, symTemp, view, key)
        path == Append(view.path, key)
    IN /\ nOps < OpsBound(mode)
       /\ r.t = "val" /\ r.val.t = "num"
       /\ heap' = SetTrapHeap(heap, view, key, Num(r.val.n + 1))
       /\ Commit(scheduleUpdate(Buf, path, Num(r.val.n + 1), view.cv))
       /\ last' = [NoLast EXCEPT !.op = "inc", !.pre = Pre]
       /\ wlog' = Append(wlog, [Entry("inc", path, Num(r.val.n + 1), view, key, view \in FreshViews(mode)) EXCEPT !.old = r.val])
       /\ nOps' = nOps + 1
       /\ UNCHANGED <<state, v, rootView, kept, nRenders, initCalls, hist, story>>

IncrementAct(mode) ==
    \E view \in {w \in LiveViews(mode) : w.kind = "obj"} : \E key \in {K("count"), K("b"), Sym(1)} :
        Increment(mode, view, key)

(* The calls the caller makes on an array view *)
Calls(mode) ==
    IF mode = "commit" THEN {Call("push", <<Num(4)>>, 0, 1, 0, "default")} ELSE
    {Call("push", <<Num(4)>>, 0, 1, 0, "default"),
     Call("pop", <<>>, 0, 0, 0, "default"),
     Call("shift", <<>>, 0, 0, 0, "default"),
     Call("unshift", <<Num(0), Num(0)>>, 0, 2, 0, "default"),
     Call("splice", <<>>, 1, 1, 0, "default"),
     Call("splice", <<>>, 1, 2, 1, "default"),
     Call("splice", <<Num(9)>>, -1, 3, 5, "default"),
     Call("sort", <<>>, 0, 0, 0, "default"),
     Call("sort", <<>>, 0, 1, 0, "desc"),
     Call("reverse", <<>>, 0, 0, 0, "default")}

(* A closure that schedules the new array element by element *)
ElementPath(view) == Append(view.path, IdxKey(0))

(* The path every method closure hands to scheduleUpdate: `path`, the    *)
(* path of the array view itself.                                         *)
SchedulePath(view) == view.path

(* view.method(...args): the get trap finds the method, the closure it    *)
(* returns works on `array`, the array the view was made for.             *)
ArrayOp(mode, view, c) ==
    LET array == heap[view.arr].e
        r == Emulated(array, c)
    IN /\ nOps < OpsBound(mode)
       /\ ViewGet(heap, strTemp, symTemp, view, K(c.m)).t = "method"
       /\ Len(r.e) < Len(Digits)
       /\ heap' = Append(heap, Arr(r.e))
       /\ Commit(scheduleUpdate(Buf, SchedulePath(view), Ref(Len(heap) + 1), view.cv))
       /\ last' = [NoLast EXCEPT !.op = "arrop", !.pre = Pre]
       /\ wlog' = Append(wlog, [Entry("arrop", view.path, Ref(Len(heap) + 1), view, K(c.m), view \in FreshViews(mode))
                                  EXCEPT !.call = c, !.ret = r.ret, !.array = array])
       /\ nOps' = nOps + 1
       /\ UNCHANGED <<state, v, rootView, kept, nRenders, initCalls, hist, story>>

ArrayOpAct(mode) ==
    \E view \in {w \in LiveViews(mode) : w.kind = "arr"} : \E c \in Calls(mode) : ArrayOp(mode, view, c)

(* A get trap that stores what it read in the buffer *)
GetTrapBufCaching(b, view, key, prop) == scheduleUpdate(b, Append(view.path, key), prop, view.cv)

(* What the get trap leaves of the buffer and the flags: getCachedValue   *)
(* looks the path up, target[key] reads the object, the proxies made for  *)
(* a nested result are new objects; nothing is stored.                    *)
GetTrapBuf(b, view, key, prop) == b

(* The keys the caller reads: a nested object, a number, a symbol-keyed   *)
(* field, an array's length and one of its methods.                       *)
ReadKeys == {K("a"), K("b"), Sym(1), LengthKey, K("push")}

(* view[key]: the get trap of the view *)
Read(mode, view, key) ==
    LET r == ViewGet(heap, strTemp, symTemp, view, key)
    IN /\ Commit(GetTrapBuf(Buf, view, key, r.val))
       /\ last' = [NoLast EXCEPT !.op = "read", !.pre = Pre,
                                  !.read = [path |-> Append(view.path, key), t |-> r.t, val |-> r.val]]
       /\ UNCHANGED <<heap, state, v, rootView, kept, wlog, nOps, nRenders, initCalls, hist, story>>

ReadAct(mode) ==
    \E view \in LiveViews(mode) : \E key \in ReadKeys : Read(mode, view, key)

(* The caller keeps a view it read (a destructured field, a closure) *)
KeepAct(mode) ==
    /\ kept.kind = "none"
    /\ \E view \in FreshViews(mode) : kept' = view
    /\ UNCHANGED <<heap, state, strTemp, symTemp, isDirty, v, vNext, rerender,
                   rootView, last, wlog, nOps, nRenders, initCalls, hist, story>>

-----------------------------------------------------------------------------
(* A render pass of the hook: the checkpoint *)

(* A callback that records every commit, whatever caused it *)
onStateChangeAlways(h, oldValue) ==
    [h EXCEPT !.past = Append(@, oldValue), !.future = <<>>]

(* The onStateChange of useReactiveUndo, given oldState.value *)
onStateChange(h, oldValue) ==
    IF h.justUndo THEN [h EXCEPT !.justUndo = FALSE]
    ELSE IF h.justRedo THEN [h EXCEPT !.justRedo = FALSE]
    ELSE [h EXCEPT !.past = Append(@, oldValue), !.future = <<>>]

(* What a snapshot of useReactiveUndo holds under `value`, by content *)
Content(h, st) ==
    LET x == PropGet(h[st.n], K("value")) IN IF IsRef(x) THEN h[x.n].f ELSE x

(* What the writes of one batch were *)
Kind(log) ==
    IF log = <<>> THEN "none"
    ELSE IF \A i \in 1..Len(log) : log[i].op \in {"write", "inc"} THEN "change"
    ELSE IF Len(log) = 1 THEN log[1].op
    ELSE "mixed"

RendersBound == IF hist.on THEN MaxRenders + 2 ELSE MaxRenders

(* batchUpdate, with a change callback registered.  When produceNewState  *)
(* throws, the maps are already cleared and nothing after it runs.        *)
Render ==
    LET pav == PathAndValues(strTemp, symTemp)
        r == produceNewState(heap, state, pav)
        seen == [NoLast EXCEPT !.op = "render", !.pre = Pre, !.log = wlog, !.entries = pav,
                               !.committed = isDirty, !.hist = hist]
    IN /\ nRenders < RendersBound
       /\ nRenders' = nRenders + 1
       /\ initCalls' = InitialStateCalls(initCalls)
       /\ v' = vNext
       /\ rerender' = FALSE
       /\ UNCHANGED <<vNext, kept, nOps>>
       /\ wlog' = <<>>
       /\ IF isDirty
          THEN /\ strTemp' = <<>>
               /\ symTemp' = <<>>
               /\ heap' = r.h
               /\ IF r.ok
                  THEN /\ isDirty' = FALSE
                       /\ state' = r.newState
                       /\ rootView' = proxyObject(r.h, r.newState.n, <<>>, vNext)
                       /\ last' = [seen EXCEPT !.cbCalls = 1, !.cbOld = state, !.cbNew = r.newState]
                  ELSE /\ UNCHANGED <<isDirty, state, rootView>>
                       /\ last' = [seen EXCEPT !.ok = FALSE]
          ELSE /\ UNCHANGED <<heap, state, strTemp, symTemp, isDirty>>
               /\ rootView' = proxyObject(heap, state.n, <<>>, vNext)
               /\ last' = seen
       /\ hist' = IF hist.on /\ isDirty /\ r.ok
                  THEN onStateChange(hist, PropGet(heap[state.n], K("value")))
                  ELSE hist
       /\ story' = IF hist.on
                   THEN Append(story, [kind |-> Kind(wlog), ok |-> last'.ok,
                                       before |-> Content(heap, state),
                                       after |-> Content(heap', state'),
                                       past |-> Len(hist'.past), future |-> Len(hist'.future)])
                   ELSE story

-----------------------------------------------------------------------------
(* useReactiveUndo: useReactive({ value: initialState }, { onStateChange }) *)

UndoHeap ==
    << Obj([k \in {K("value")} |-> Ref(2)]),
       Obj([k \in {K("count")} |-> Num(1)]) >>

InitUndo ==
    /\ heap = UndoHeap
    /\ state = Ref(RootId)
    /\ strTemp = <<>>
    /\ symTemp = <<>>
    /\ isDirty = FALSE
    /\ v = FALSE
    /\ vNext = FALSE
    /\ rerender = FALSE
    /\ rootView = proxyObject(UndoHeap, RootId, <<>>, FALSE)
    /\ kept = NoView
    /\ last = NoLast
    /\ wlog = <<>>
    /\ nOps = 0
    /\ nRenders = 0
    /\ initCalls = InitialStateCalls(0)
    /\ hist = [NoHist EXCEPT !.on = TRUE]
    /\ story = <<>>

(* if (lastState) *)
Truthy(x) == x \notin {Undef, Null, Num(0), False, EmptyStr}

(* A clone that copies no property *)
cloneEmpty(h, st, sm, r) == [h |-> Append(h, Obj(NoFields)), val |-> Ref(Len(h) + 1)]

(* cloneDeep(state.value): a new plain object holding what each own key   *)
(* of the view's target reads as through the view (the values held under  *)
(* `value` have scalar fields only, so one object is the whole clone).    *)
cloneDeep(h, st, sm, r) ==
    IF r.t = "view"
    THEN [h |-> Append(h, Obj([k \in DOMAIN TargetObj(h, r.view.tgt).f |->
                                  ViewGet(h, st, sm, r.view, k).val])),
          val |-> Ref(Len(h) + 1)]
    ELSE [h |-> h, val |-> r.val]

(* undo() of the last render pass *)
undo ==
    /\ nOps < OpsBound("undo")
    /\ nOps' = nOps + 1
    /\ last' = [NoLast EXCEPT !.op = "undo", !.pre = Pre, !.hist = hist]
    /\ UNCHANGED <<state, v, rootView, kept, nRenders, initCalls, story>>
    /\ IF hist.past = <<>>
       THEN UNCHANGED <<heap, strTemp, symTemp, isDirty, vNext, rerender, hist, wlog>>
       ELSE LET lastState == hist.past[Len(hist.past)]
                popped == [hist EXCEPT !.justUndo = TRUE, !.past = SubSeq(@, 1, Len(@) - 1)]
                c == cloneDeep(heap, strTemp, symTemp,
                               ViewGet(heap, strTemp, symTemp, rootView, K("value")))
            IN IF Truthy(lastState)
               THEN /\ heap' = c.h
                    /\ hist' = [popped EXCEPT !.future = Append(@, c.val)]
                    /\ Commit(scheduleUpdate(Buf, <<K("value")>>, lastState, rootView.cv))
                    /\ wlog' = Append(wlog, Entry("undo", <<K("value")>>, lastState,
                                                  rootView, K("value"), TRUE))
               ELSE /\ hist' = popped
                    /\ UNCHANGED <<heap, strTemp, symTemp, isDirty, vNext, rerender, wlog>>

(* redo() of the last render pass *)
redo ==
    /\ nOps < OpsBound("undo")
    /\ nOps' = nOps + 1
    /\ last' = [NoLast EXCEPT !.op = "redo", !.pre = Pre, !.hist = hist]
    /\ UNCHANGED <<state, v, rootView, kept, nRenders, initCalls, story>>
    /\ IF hist.future = <<>>
       THEN UNCHANGED <<heap, strTemp, symTemp, isDirty, vNext, rerender, hist, wlog>>
       ELSE LET nextState == hist.future[Len(hist.future)]
                popped == [hist EXCEPT !.justRedo = TRUE, !.future = SubSeq(@, 1, Len(@) - 1)]
                c == cloneDeep(heap, strTemp, symTemp,
                               ViewGet(heap, strTemp, symTemp, rootView, K("value")))
            IN IF Truthy(nextState)
               THEN /\ heap' = c.h
                    /\ hist' = [popped EXCEPT !.past = Append(@, c.val)]
                    /\ Commit(scheduleUpdate(Buf, <<K("value")>>, nextState, rootView.cv))
                    /\ wlog' = Append(wlog, Entry("redo", <<K("value")>>, nextState,
                                                  rootView, K("value"), TRUE))
               ELSE /\ hist' = popped
                    /\ UNCHANGED <<heap, strTemp, symTemp, isDirty, vNext, rerender, wlog>>

NextUndo == IncrementAct("undo") \/ undo \/ redo \/ Render

SpecUndo == InitUndo /\ [][NextUndo]_vars

-----------------------------------------------------------------------------
Next == WriteAct("buf") \/ IncrementAct("buf") \/ KeepAct("buf") \/ Render

Spec == Init /\ [][Next]_vars

NextCommit == WriteAct("commit") \/ ArrayOpAct("commit") \/ KeepAct("commit") \/ Render

SpecCommit == Init /\ [][NextCommit]_vars

NextArr == WriteAct("arr") \/ ArrayOpAct("arr") \/ KeepAct("arr") \/ Render

SpecArr == Init /\ [][NextArr]_vars

NextSym == WriteAct("sym") \/ KeepAct("sym") \/ Render

SpecSym == Init /\ [][NextSym]_vars

NextFail == WriteAct("fail") \/ KeepAct("fail") \/ Render

SpecFail == Init /\ [][NextFail]_vars

NextRead == WriteAct("read") \/ ReadAct("read") \/ Render

SpecRead == Init /\ [][NextRead]_vars

-----------------------------------------------------------------------------
(* Reading the snapshots *)

(* The value at a path below x, by plain property reads *)
RECURSIVE GetIn(_, _, _)
GetIn(h, x, path) ==
    IF path = <<>> THEN x
    ELSE IF ~IsRef(x) THEN Undef
    ELSE GetIn(h, PropGet(h[x.n], Head(path)), Tail(path))

IsPrefix(q, p) == Len(q) <= Len(p) /\ SubSeq(p, 1, Len(q)) = q
Parent(p) == SubSeq(p, 1, Len(p) - 1)
LastKey(p) == p[Len(p)]

(* The operation just performed, and whether a logged write is the last to its path *)
Latest == wlog[Len(wlog)]
IsLatest(log, i) == \A j \in (i + 1)..Len(log) : log[j].k # log[i].k

(* What reading the written key through the writing view gives now *)
ReadBack(e) == ViewGet(heap, strTemp, symTemp, e.view, e.key).val

Wrote == last.op \in {"write", "inc", "arrop"}
Rendered == last.op = "render"
Committed == last.op = "render" /\ last.committed /\ last.ok

-----------------------------------------------------------------------------
(* C1 (read-your-writes): before the next checkpoint, reading a path      *)
(* through the view it was written through returns the value of the last  *)
(* write to that path, whatever that value is (null, undefined, 0, false   *)
(* and '' included).                                                       *)
C1_ReadYourWrites ==
    \A i \in 1..Len(wlog) :
        (wlog[i].op = "write" /\ IsLatest(wlog, i)) => ReadBack(wlog[i]) = wlog[i].v

-----------------------------------------------------------------------------
(* C2 (cumulative writes): when the writes since the last checkpoint are  *)
(* n increments of one numeric field of the snapshot, a read of the field *)
(* returns base + n, base being what the field read as before the first   *)
(* increment, and the snapshot the next checkpoint produces holds          *)
(* base + n there.                                                         *)
OnlyIncs(log) ==
    /\ Len(log) >= 1
    /\ \A i \in 1..Len(log) : log[i].op = "inc" /\ log[i].k = log[1].k

C2_CumulativeIncrements ==
    /\ (OnlyIncs(wlog) /\ GetIn(heap, state, wlog[1].k).t = "num")
         => ReadBack(Latest) = Num(wlog[1].old.n + Len(wlog))
    /\ (/\ Rendered
        /\ OnlyIncs(last.log)
        /\ GetIn(last.pre.heap, last.pre.state, last.log[1].k).t = "num")
         => /\ last.ok
            /\ GetIn(heap, state, last.log[1].k) = Num(last.log[1].old.n + Len(last.log))

C2_Witness ==
    /\ Rendered
    /\ OnlyIncs(last.log)
    /\ Len(last.log) = MaxOps
    /\ last.log[1].k = <<K("count")>>
    /\ GetIn(heap, state, <<K("count")>>) = Num(1 + MaxOps)

-----------------------------------------------------------------------------
(* C3 (writes only buffer): a property write through an object or array  *)
(* view and every emulated array method leave the snapshot reference and  *)
(* every object reachable from it as they were, set the DirtyFlag, and     *)
(* add or replace exactly one entry of the write buffer.                   *)
OneEntryPut(old, new) ==
    /\ Len(new) \in {Len(old), Len(old) + 1}
    /\ \A i \in 1..Len(old) : new[i].k = old[i].k
    /\ Cardinality({i \in 1..Len(new) : i > Len(old) \/ new[i] # old[i]}) <= 1

C3_WritesOnlyBuffer ==
    Wrote =>
        /\ state = last.pre.state
        /\ \A id \in Reachable(last.pre.heap, last.pre.state) : heap[id] = last.pre.heap[id]
        /\ isDirty
        /\ \/ symTemp = last.pre.sm /\ OneEntryPut(last.pre.st, strTemp)
           \/ strTemp = last.pre.st /\ OneEntryPut(last.pre.sm, symTemp)
        /\ getCachedValue(strTemp, symTemp, Latest.k) = Latest.v

C3_Witness ==
    /\ last.op = "arrop"
    /\ Latest.call.m = "splice"
    /\ Len(wlog) = 2
    /\ wlog[1].op = "write"
    /\ GetIn(heap, state, <<K("todos")>>) = Ref(4)
    /\ heap[4].e = <<Num(1), Num(2), Num(3)>>

-----------------------------------------------------------------------------
(* Relations between the paths of one commit *)

(* q is the length of the array p indexes, or the other way round *)
LenCoupled(q, p) ==
    /\ Len(q) >= 1 /\ Len(p) = Len(q)
    /\ Parent(q) = Parent(p)
    /\ \/ LastKey(q) = LengthKey /\ IsIdxKey(LastKey(p))
       \/ LastKey(p) = LengthKey /\ IsIdxKey(LastKey(q))

(* No entry applied after entry n writes its path, an ancestor of it, or  *)
(* the length (index) coupled to it.                                      *)
Effective(entries, n) ==
    \A j \in (n + 1)..Len(entries) :
        ~IsPrefix(entries[j].k, entries[n].k) /\ ~LenCoupled(entries[j].k, entries[n].k)

OwnKeys(o) == IF o.kind = "obj" THEN DOMAIN o.f ELSE {IdxKey(i - 1) : i \in 1..Len(o.e)}

RECURSIVE AllPaths(_, _)
AllPaths(h, x) ==
    {<<>>} \cup
    (IF IsRef(x)
     THEN UNION {{<<k>> \o q : q \in AllPaths(h, PropGet(h[x.n], k))} : k \in OwnKeys(h[x.n])}
     ELSE {})

Unrelated(q, entries) ==
    \A n \in 1..Len(entries) : ~IsPrefix(q, entries[n].k) /\ ~IsPrefix(entries[n].k, q)

(* Every object of the pre-commit snapshot still has the properties it had *)
OldIntact ==
    \A id \in Reachable(last.pre.heap, last.pre.state) :
        /\ heap[id].kind = last.pre.heap[id].kind
        /\ heap[id].f = last.pre.heap[id].f
        /\ heap[id].e = last.pre.heap[id].e

OldSnap == [heap |-> last.pre.heap, state |-> last.pre.state]

-----------------------------------------------------------------------------
-----------------------------------------------------------------------------
(* C5 (structural sharing), as stated: after a commit, every subtree of   *)
(* the base snapshot whose path is neither a prefix of nor prefixed by a  *)
(* buffered path is reference-identical in the new snapshot.              *)
C5_StructuralSharing ==
    Committed =>
        \A q \in AllPaths(OldSnap.heap, OldSnap.state) :
            Unrelated(q, last.entries)
                => GetIn(heap, state, q) = GetIn(OldSnap.heap, OldSnap.state, q)

(* C5, amended: ... and that is not an element of an array whose length   *)
(* has a buffered write ...                                                *)
C5_StructuralSharingAmended ==
    Committed =>
        \A q \in AllPaths(OldSnap.heap, OldSnap.state) :
            (/\ Unrelated(q, last.entries)
             /\ \A n \in 1..Len(last.entries) : ~LenCoupled(last.entries[n].k, q))
                => GetIn(heap, state, q) = GetIn(OldSnap.heap, OldSnap.state, q)

C5_Witness ==
    /\ Committed
    /\ Len(last.entries) = 2
    /\ last.entries[1].k = <<K("a"), K("b")>>
    /\ last.entries[2].k = <<K("count")>>
    /\ state # OldSnap.state
    /\ GetIn(heap, state, <<K("a")>>) # Ref(2)
    /\ GetIn(heap, state, <<K("a"), K("c")>>) = Ref(3)
    /\ GetIn(heap, state, <<K("todos")>>) = Ref(4)

-----------------------------------------------------------------------------
-----------------------------------------------------------------------------
(* C7 (change callback): onStateChange is invoked exactly once by a       *)
(* checkpoint that had a non-empty buffer, with the snapshot current      *)
(* before the commit and the snapshot current after it, and is never      *)
(* invoked by a checkpoint that had an empty buffer.                      *)
C7_CallbackOncePerCommit ==
    Rendered =>
        /\ (last.entries # <<>> /\ last.ok)
             => last.cbCalls = 1 /\ last.cbOld = last.pre.state /\ last.cbNew = state
        /\ last.entries = <<>> => last.cbCalls = 0

-----------------------------------------------------------------------------
(* C8 (checkpoint): a render pass commits iff the DirtyFlag is true, and  *)
(* a render pass reached with an empty buffer leaves the snapshot         *)
(* reference, the buffer and the DirtyFlag as they were and does not      *)
(* invoke the change callback.                                            *)
C8_CheckpointIdempotent ==
    Rendered =>
        /\ last.committed <=> last.pre.dirty
        /\ last.entries = <<>>
             => /\ state = last.pre.state
                /\ strTemp = last.pre.st
                /\ symTemp = last.pre.sm
                /\ isDirty = last.pre.dirty
                /\ last.cbCalls = 0

-----------------------------------------------------------------------------
(* C9 (return values): each emulated array operation returns what the     *)
(* native operation returns on the same array with the same arguments.    *)
C9_NativeReturn ==
    last.op = "arrop" => Latest.ret = Native(Latest.array, Latest.call).ret

-----------------------------------------------------------------------------
(* The elements a caller reads off the array at `path`, through the root  *)
(* view: its length, then each index, one get trap per read.              *)
VisibleElems(path) ==
    LET r == ReadPath(heap, strTemp, symTemp, rootView, path)
        n == ViewGet(heap, strTemp, symTemp, r.view, LengthKey).val.n
    IN [i \in 1..n |-> ViewGet(heap, strTemp, symTemp, r.view, IdxKey(i - 1)).val]

OneArrayOp(log) ==
    Len(log) = 1 /\ log[1].op = "arrop" /\ log[1].fresh /\ log[1].clean

(* C10 (array op equivalence): after one emulated operation on an array   *)
(* view just read from the root view, reading the array through the root  *)
(* view shows the contents the native operation produces, before the      *)
(* checkpoint and after it.                                               *)
C10_ArrayOpEquivalence ==
    /\ (last.op = "arrop" /\ OneArrayOp(wlog))
         => VisibleElems(wlog[1].k) = Native(wlog[1].array, wlog[1].call).e
    /\ (Committed /\ OneArrayOp(last.log))
         => VisibleElems(last.log[1].k) = Native(last.log[1].array, last.log[1].call).e

-----------------------------------------------------------------------------
(* Two emulated operations in a row, made through one array view that was *)
(* read from the root view once, starting from an empty buffer            *)
TwoOpsOneView(log) ==
    /\ Len(log) = 2
    /\ log[1].op = "arrop" /\ log[2].op = "arrop"
    /\ log[1].fresh /\ log[1].clean
    /\ log[2].view = log[1].view

NativeTwice(log) == Native(Native(log[1].array, log[1].call).e, log[2].call).e

(* C11 (operations work on the visible array): a sequence of emulated     *)
(* operations made through one array view obtained once has the effect of *)
(* the same native sequence: after two operations the array read through  *)
(* the root view, and the array the next checkpoint commits, hold what the *)
(* two native operations in a row produce.                                *)
C11_OpsOnVisibleArray ==
    /\ (last.op = "arrop" /\ TwoOpsOneView(wlog))
         => VisibleElems(wlog[1].k) = NativeTwice(wlog)
    /\ (Committed /\ TwoOpsOneView(last.log))
         => VisibleElems(last.log[1].k) = NativeTwice(last.log)

-----------------------------------------------------------------------------
(* The buffer entries that stand for the path p *)
EntriesAt(p) ==
    IF HasSymbol(p)
    THEN {[map |-> "sym", i |-> i] : i \in {j \in 1..Len(symTemp) : symTemp[j].k = p}}
    ELSE {[map |-> "str", i |-> i] : i \in {j \in 1..Len(strTemp) : strTemp[j].k = Join(p)}}

EntryValue(x) == IF x.map = "sym" THEN symTemp[x.i].v ELSE strTemp[x.i].v

SameWriteTwice ==
    /\ Len(wlog) >= 2
    /\ Latest.op = "write" /\ wlog[Len(wlog) - 1].op = "write"
    /\ Latest.k = wlog[Len(wlog) - 1].k
    /\ Latest.v = wlog[Len(wlog) - 1].v

(* C12 (one pending write per path): after any sequence of writes the     *)
(* buffer has exactly one entry for each path written since the last      *)
(* checkpoint, that entry holds the value of the latest write to the      *)
(* path, and writing the same value at the same path a second time leaves *)
(* the buffer, hence the snapshot the checkpoint produces, as it was.     *)
C12_OnePendingPerPath ==
    /\ \A i \in 1..Len(wlog) :
           IsLatest(wlog, i) =>
               /\ Cardinality(EntriesAt(wlog[i].k)) = 1
               /\ \A x \in EntriesAt(wlog[i].k) : EntryValue(x) = wlog[i].v
    /\ (Wrote /\ SameWriteTwice)
           => /\ strTemp = last.pre.st
              /\ symTemp = last.pre.sm
              /\ produceNewState(heap, state, PathAndValues(strTemp, symTemp))
                   = produceNewState(last.pre.heap, last.pre.state,
                                     PathAndValues(last.pre.st, last.pre.sm))

-----------------------------------------------------------------------------
(* The view stands for the object the current snapshot holds at its path *)
OnSnapshot(w) == GetIn(heap, state, w.path) = Ref(w.arr)

NotWritten(q) == \A i \in 1..Len(wlog) : wlog[i].k # q

(* C13 (opaque keys): a read of a symbol-keyed path through the view it   *)
(* was written through returns the written value; a read, through a view  *)
(* standing for the snapshot's object, of a symbol-keyed path that was    *)
(* not written returns the snapshot's value, whatever other symbol-keyed  *)
(* paths (another symbol with the same description, a shorter or a longer *)
(* path) are pending.                                                     *)
C13_OpaqueKeys ==
    /\ \A i \in 1..Len(wlog) :
           (HasSymbol(wlog[i].k) /\ IsLatest(wlog, i)) => ReadBack(wlog[i]) = wlog[i].v
    /\ \A w \in LiveViews("sym") : \A key \in {Sym(1), Sym(2), K("b")} :
           (/\ OnSnapshot(w)
            /\ HasSymbol(Append(w.path, key))
            /\ NotWritten(Append(w.path, key)))
              => ViewGet(heap, strTemp, symTemp, w, key).val
                   = GetIn(heap, state, Append(w.path, key))

C13_Witness ==
    /\ Len(symTemp) = 2
    /\ symTemp[1] = [k |-> <<K("a"), Sym(1)>>, v |-> Num(2)]
    /\ symTemp[2].k = <<K("a"), K("c"), Sym(1)>>
    /\ Latest.k = <<K("a"), K("c"), Sym(1)>>
    /\ ViewGet(heap, strTemp, symTemp, wlog[1].view, Sym(1)).val = Num(2)
    /\ ViewGet(heap, strTemp, symTemp, wlog[1].view, Sym(2)).val = Num(1)
    /\ kept.path = <<K("a"), K("c"), Sym(1)>>
    /\ ViewGet(heap, strTemp, symTemp, kept, K("b")).val = Num(1)

-----------------------------------------------------------------------------
(* C14 (lazy initial state): an initialState given as a function is       *)
(* called once over the life of the instance, however many render passes  *)
(* it goes through.                                                       *)
C14_InitializerOnce == initCalls = 1

-----------------------------------------------------------------------------
(* C15 (abort-all): when a commit fails, the buffer still holds every     *)
(* write that was pending before the commit started.                      *)
C15_BufferKeptOnFailure ==
    (Rendered /\ ~last.ok) => strTemp = last.pre.st /\ symTemp = last.pre.sm

-----------------------------------------------------------------------------
(* Entry n has an intermediate node that is no object: an entry applied  *)
(* before it put, at a proper prefix of its path, a number or an object   *)
(* that lacks the next key of the path, and nothing applied in between    *)
(* replaced that prefix or an ancestor of it.                             *)
BelowNonObject(h, entries, n) ==
    \E m \in 1..(n - 1) :
        LET p == entries[m].k
            q == entries[n].k
            x == entries[m].v
        IN /\ Len(p) < Len(q)
           /\ IsPrefix(p, q)
           /\ \/ x.t = "num"
              \/ /\ IsRef(x)
                 /\ Len(q) >= Len(p) + 2
                 /\ ~IsRef(PropGet(h[x.n], q[Len(p) + 1]))
           /\ \A j \in (m + 1)..(n - 1) : ~IsPrefix(entries[j].k, p)

C16_WitnessMissing ==
    /\ Rendered /\ ~last.ok
    /\ Len(last.entries) = 2
    /\ last.entries[1].k = <<K("a")>> /\ IsRef(last.entries[1].v)
    /\ last.entries[2].k = <<K("a"), K("c"), K("b")>>
    /\ state = last.pre.state

-----------------------------------------------------------------------------
(* The render passes so far committed k changes, one per pass, and then j *)
(* undo steps, one per pass.                                              *)
ChangesThenUndos(k, j) ==
    /\ Len(story) = k + j
    /\ \A i \in 1..k : story[i].kind = "change"
    /\ \A i \in (k + 1)..(k + j) : story[i].kind = "undo"

(* A call that found its stack empty left the buffer and the flags alone *)
NoOpCall(op, stack) ==
    (last.op = op /\ stack = <<>>)
        => /\ strTemp = last.pre.st
           /\ symTemp = last.pre.sm
           /\ isDirty = last.pre.dirty
           /\ hist = last.hist

(* C17 (undo): after k changes, each committed by its own render pass,    *)
(* the j-th of j successive undo steps (each followed by its render pass) *)
(* makes the state equal to the value held before the j-th most recent    *)
(* change, so k steps give the initial state; undo with an empty past     *)
(* buffers nothing and sets no flag.                                      *)
C17_Undo ==
    /\ \A k \in 1..Len(story) : \A j \in 1..k :
           ChangesThenUndos(k, j)
               => /\ story[k + j].ok
                  /\ story[k + j].after = story[k - j + 1].before
                  /\ Content(heap, state) = story[k - j + 1].before
    /\ NoOpCall("undo", last.hist.past)

C17_Witness ==
    /\ ChangesThenUndos(2, 2)
    /\ story[2].after = [k \in {K("count")} |-> Num(3)]
    /\ story[3].after = [k \in {K("count")} |-> Num(2)]
    /\ Content(heap, state) = [k \in {K("count")} |-> Num(1)]
    /\ hist.past = <<>>
    /\ Len(hist.future) = 2

-----------------------------------------------------------------------------
(* C18 (redo round trip): an undo step and then a redo step, each         *)
(* followed by its render pass, restore a state deep-equal to the state   *)
(* before the undo and leave the past and future stacks as long as they   *)
(* were before the pair; redo with an empty future buffers nothing and    *)
(* sets no flag.                                                          *)
C18_RedoRoundTrip ==
    /\ \A i \in 2..(Len(story) - 1) :
           (story[i].kind = "undo" /\ story[i + 1].kind = "redo")
               => /\ story[i + 1].ok
                  /\ story[i + 1].after = story[i].before
                  /\ story[i + 1].past = story[i - 1].past
                  /\ story[i + 1].future = story[i - 1].future
    /\ NoOpCall("redo", last.hist.future)

C18_Witness ==
    /\ Len(story) = 3
    /\ story[1].kind = "change" /\ story[2].kind = "undo" /\ story[3].kind = "redo"
    /\ story[2].after = [k \in {K("count")} |-> Num(1)]
    /\ Content(heap, state) = [k \in {K("count")} |-> Num(2)]
    /\ Len(hist.past) = 1 /\ hist.future = <<>>

-----------------------------------------------------------------------------
(* C19 (whole-array entry): an emulated array operation buffers one       *)
(* entry, at the path of the array itself, holding the whole new array;   *)
(* it adds no entry at an index path or at the length path and leaves     *)
(* every other entry of the buffer as it was.                             *)
C19_WholeArrayEntry ==
    last.op = "arrop" =>
        LET key == Join(Latest.view.path)
            x == MapGet(strTemp, key)
        IN /\ symTemp = last.pre.sm
           /\ MapHas(strTemp, key)
           /\ IsRef(x) /\ heap[x.n].kind = "arr"
           /\ heap[x.n].e = Emulated(Latest.array, Latest.call).e
           /\ Len(strTemp) = Len(last.pre.st) + (IF MapHas(last.pre.st, key) THEN 0 ELSE 1)
           /\ \A i \in 1..Len(last.pre.st) :
                  /\ strTemp[i].k = last.pre.st[i].k
                  /\ strTemp[i].k # key => strTemp[i] = last.pre.st[i]
           /\ \A i \in 1..Len(strTemp) : i > Len(last.pre.st) => strTemp[i].k = key

C19_Witness ==
    /\ last.op = "arrop"
    /\ Latest.call.m = "shift"
    /\ Len(strTemp) = 2
    /\ strTemp[1] = [k |-> Join(<<K("todos"), IdxKey(0)>>), v |-> Num(9)]
    /\ strTemp[2].k = Join(<<K("todos")>>)
    /\ heap[strTemp[2].v.n].e = <<Num(2), Num(3)>>

-----------------------------------------------------------------------------
(* The symbol-keyed map after a write of x at p, when the entries `hits`  *)
(* of the map `old` count as already holding p: the first of them takes   *)
(* the value in place, and without any a new entry is added at the end.   *)
SymPut(old, hits, p, x) ==
    IF hits = {}
    THEN Append(old, [k |-> p, v |-> x])
    ELSE LET first == CHOOSE i \in hits : \A j \in hits : i <= j
         IN [i \in 1..Len(old) |-> IF i = first THEN [k |-> old[i].k, v |-> x] ELSE old[i]]

SymWrite == last.op = "write" /\ HasSymbol(Latest.k)

(* C20 (opaque-key write policy), as stated: a write at a symbol-keyed    *)
(* path that extends or equals a buffered symbol-keyed path overwrites    *)
(* that entry in place; any other write, one to a shorter ancestor        *)
(* included, adds a new entry and evicts nothing.                         *)
C20_OpaqueWritePolicy ==
    SymWrite =>
        /\ strTemp = last.pre.st
        /\ symTemp = SymPut(last.pre.sm,
                            {i \in 1..Len(last.pre.sm) : IsPrefix(last.pre.sm[i].k, Latest.k)},
                            Latest.k, Latest.v)

(* C20, amended: a write at a symbol-keyed path equal to a buffered       *)
(* symbol-keyed path overwrites that entry in place; a write at a path    *)
(* that properly extends a buffered path, or is a shorter ancestor of     *)
(* one, adds a new entry and leaves every buffered entry as it was.       *)
C20_OpaqueWritePolicyAmended ==
    SymWrite =>
        /\ strTemp = last.pre.st
        /\ symTemp = SymPut(last.pre.sm,
                            {i \in 1..Len(last.pre.sm) : last.pre.sm[i].k = Latest.k},
                            Latest.k, Latest.v)

C20_Witness ==
    /\ SymWrite
    /\ Latest.k = <<K("a"), K("c"), Sym(1), K("b")>>
    /\ symTemp = <<[k |-> <<K("a"), K("c"), Sym(1)>>, v |-> Num(5)],
                   [k |-> <<K("a"), K("c"), Sym(1), K("b")>>, v |-> Num(2)]>>

-----------------------------------------------------------------------------
(* The entries of the string-keyed map as [path, value] pairs *)
StringEntries(st) == [i \in 1..Len(st) |-> [k |-> Split(st[i].k), v |-> st[i].v]]

(* C21 (drain order): a commit applies all string-keyed pending writes    *)
(* first, in the order of their map, and all symbol-keyed pending writes  *)
(* after them; so when a string-keyed path is an ancestor of a            *)
(* symbol-keyed path of the same commit, the symbol-keyed write is the    *)
(* one applied later and the snapshot produced holds its value.           *)
C21_DrainOrder ==
    (Rendered /\ last.committed) =>
        /\ last.entries = StringEntries(last.pre.st) \o last.pre.sm
        /\ last.ok =>
              \A n \in 1..Len(last.entries) : \A m \in 1..Len(last.entries) :
                  (/\ HasSymbol(last.entries[n].k)
                   /\ ~HasSymbol(last.entries[m].k)
                   /\ IsPrefix(last.entries[m].k, last.entries[n].k))
                      => /\ m < n
                         /\ GetIn(heap, state, last.entries[n].k) = last.entries[n].v

-----------------------------------------------------------------------------
(* C22 (DirtyFlag): in every reachable state, after writes, reads and     *)
(* checkpoints (a checkpoint whose commit fails included), the DirtyFlag  *)
(* is true exactly when the write buffer, string map plus symbol map, is  *)
(* not empty.                                                             *)
C22_DirtyIffBuffered ==
    isDirty <=> (strTemp # <<>> \/ symTemp # <<>>)

-----------------------------------------------------------------------------
(* C23 (reads have no effect): a read through a view of any depth, with a *)
(* string or a symbol key, leaves the write buffer, the DirtyFlag, the    *)
(* current snapshot reference and the re-render request as they were, and *)
(* commits nothing.                                                       *)
C23_ReadNoEffect ==
    last.op = "read" =>
        /\ strTemp = last.pre.st
        /\ symTemp = last.pre.sm
        /\ isDirty = last.pre.dirty
        /\ state = last.pre.state
        /\ heap = last.pre.heap
        /\ vNext = last.pre.vNext
        /\ rerender = last.pre.rerender
        /\ v = last.pre.v

C23_Witness ==
    /\ last.op = "read"
    /\ last.read.path = <<K("a"), K("c"), Sym(1), K("b")>>
    /\ last.read.val = Num(2)
    /\ isDirty
    /\ Len(symTemp) = 2
    /\ state = Ref(RootId)

-----------------------------------------------------------------------------
(* C24 (every string-keyed write requests a render pass): after a write,  *)
(* an increment or an emulated array call at a string-keyed path, made    *)
(* through a view of the latest or of any earlier render pass, the        *)
(* DirtyFlag is set, the flag value requested from the host differs from  *)
(* the value the host holds, and a render pass is scheduled.              *)
C24_WriteRequestsRender ==
    (Wrote /\ ~HasSymbol(Latest.k)) =>
        /\ isDirty
        /\ vNext # v
        /\ rerender

-----------------------------------------------------------------------------
(* The batch holds an ordinary change: a write that is no undo or redo *)
HasChange(log) == \E i \in 1..Len(log) : log[i].op \in {"write", "inc"}

(* C25 (history recording): a commit of a useReactiveUndo state whose     *)
(* batch holds an ordinary change pushes one entry, the value held before *)
(* the commit, onto the past stack and empties the future stack, however  *)
(* many writes the batch holds and whether or not undo or redo was called *)
(* in it; a commit caused by undo or redo alone leaves both stacks as the *)
(* calls left them.                                                       *)
C25_HistoryRecording ==
    (hist.on /\ Committed) =>
        IF HasChange(last.log)
        THEN /\ hist.past = Append(last.hist.past,
                                   PropGet(last.pre.heap[last.pre.state.n], K("value")))
             /\ hist.future = <<>>
        ELSE /\ hist.past = last.hist.past
             /\ hist.future = last.hist.future

-----------------------------------------------------------------------------
(* The root view the render pass before the last checkpoint returned *)
PreRootView == proxyObject(last.pre.heap, last.pre.state.n, <<>>, last.pre.v)

(* What reading the path q through that view gave just before the checkpoint *)
PreRead(q) == ReadPath(last.pre.heap, last.pre.st, last.pre.sm, PreRootView, q)

(* A read result and a committed value are the same value: the same       *)
(* scalar, or an object (array) on both sides, whose fields are compared  *)
(* at their own paths.                                                    *)
SameValue(r, x) ==
    IF r.t = "view" THEN IsRef(x) /\ heap[x.n].kind = r.view.kind
    ELSE r.val = x

(* C26 (read/commit consistency): for every batch of writes and array     *)
(* calls, writes to an ancestor and a descendant included, the value read *)
(* at any path through the root view just before the checkpoint is the    *)
(* value the snapshot produced by the checkpoint holds at that path.      *)
C26_ReadCommitConsistency ==
    Committed =>
        \A q \in AllPaths(heap, state) \cup AllPaths(last.pre.heap, last.pre.state)
                  \cup {last.entries[n].k : n \in 1..Len(last.entries)} :
            PreRead(q).t # "stuck" => SameValue(PreRead(q), GetIn(heap, state, q))

-----------------------------------------------------------------------------
(* C27 (string-path round trip): for every string-keyed path written,     *)
(* keys that hold the '.' separator included, splitting the joined        *)
(* composite key gives back the keys that were written; two distinct      *)
(* string-keyed paths never share one composite key; and a value          *)
(* committed alone lands at the path it was written to.                   *)
C27_StringPathRoundTrip ==
    /\ \A i \in 1..Len(wlog) :
           ~HasSymbol(wlog[i].k) =>
               /\ Split(Join(wlog[i].k)) = wlog[i].k
               /\ \A j \in 1..Len(wlog) :
                      (~HasSymbol(wlog[j].k) /\ wlog[j].k # wlog[i].k)
                          => Join(wlog[j].k) # Join(wlog[i].k)
    /\ (Committed /\ Len(last.log) = 1 /\ ~HasSymbol(last.log[1].k))
           => GetIn(heap, state, last.log[1].k) = last.log[1].v

-----------------------------------------------------------------------------
(* C28 (stale views stay current): a view obtained in an earlier render   *)
(* pass and used after later checkpoints reads, at a path with nothing    *)
(* pending, the value the current snapshot holds there; so an increment   *)
(* made through such a view right after a commit writes the committed     *)
(* value plus one.                                                        *)
C28_StaleViewsCurrent ==
    /\ (kept.kind # "none" /\ strTemp = <<>> /\ symTemp = <<>>) =>
           \A key \in {K("count"), K("b"), Sym(1)} :
               ViewGet(heap, strTemp, symTemp, kept, key).t = "val"
                   => ViewGet(heap, strTemp, symTemp, kept, key).val
                        = GetIn(heap, state, Append(kept.path, key))
    /\ (last.op = "inc" /\ Len(wlog) = 1 /\ GetIn(heap, state, Latest.k).t = "num")
           => Latest.v = Num(GetIn(heap, state, Latest.k).n + 1)

-----------------------------------------------------------------------------
(* The symbol-keyed map holds the value x at the path p *)
PendingSym(sm, p, x) == \E i \in 1..Len(sm) : sm[i].k = p /\ sm[i].v = x

-----------------------------------------------------------------------------
(* C30 (flags consumed): after every render pass of a useReactiveUndo     *)
(* state, whatever changes, undo and redo calls came before it (undo and  *)
(* redo in one batch included), justUndo and justRedo are both false.     *)
C30_FlagsConsumed ==
    (hist.on /\ Rendered) => (~hist.justUndo /\ ~hist.justRedo)

====
